---- MODULE Spec2Model ----
(***************************************************************************)
(* Model of the iterative DNS resolver of resolver.py: the wire decoder    *)
(* (parse_record, parse_response), the transport (query_servers) and the   *)
(* resolution engine (resolve, locate_answer, resolve_query).              *)
(*                                                                         *)
(* Byte buffers are sequences of octets 0..255; a Python offset o is the   *)
(* element o + 1 of the sequence.  Python strings are sequences of         *)
(* character codes ("a.c" is <<97, 46, 99>>), so that names decoded from   *)
(* the wire, names compared by the engine and addresses rendered by        *)
(* value_string are computed, not assumed.                                 *)
(***************************************************************************)
EXTENDS Integers, Sequences, FiniteSets, TLC

\* None where a string or a byte buffer is expected: no string holds -1.
None == << -1 >>
\* None where an object (a record, a response, a frame) is expected.
NoObject == [none |-> TRUE]

Min(a, b) == IF a < b THEN a ELSE b

\* response[i:j] of Python for 0 <= i and 0 <= j: clamped to the buffer.
Slice(b, i, j) ==
  IF i >= Min(j, Len(b)) THEN << >> ELSE SubSeq(b, i + 1, Min(j, Len(b)))

\* struct.unpack('!H', two octets) and ('!I', four octets), big-endian.
U16(b, o) == b[o + 1] * 256 + b[o + 2]

\* pack('!H', v): the two octets of a 16-bit value, big-endian.
P16(v) == << (v \div 256) % 256, v % 256 >>

\* ---- DNSRecordType (helpers) ---------------------------------------------
TYPE_A == 1
TYPE_NS == 2
TYPE_CNAME == 5
TYPE_SOA == 6
TYPE_MX == 15
TYPE_AAAA == 28

\* ---- string literals of the program ---------------------------------------
\* "error"
STR_error == << 101, 114, 114, 111, 114 >>
\* "Parse error"
STR_parse_error == << 80, 97, 114, 115, 101, 32, 101, 114, 114, 111, 114 >>
\* "Unsupported record type"
STR_unsupported ==
  << 85, 110, 115, 117, 112, 112, 111, 114, 116, 101, 100, 32,
     114, 101, 99, 111, 114, 100, 32, 116, 121, 112, 101 >>

DNSRecord(name, type, value) == [name |-> name, type |-> type, value |-> value]

\* ---- name codec (helpers.decode_dns_name) ---------------------------------
\* Jump budget of the name decoder: the pointers the model follows in one name.
MaxJumps == 16

\* The labels read from offset off, and the cursor past the reference: past
\* the zero octet, or past the first two-octet pointer met.
RECURSIVE decode_labels(_, _, _)
decode_labels(b, off, jumps) ==
  IF off >= Len(b) THEN [ok |-> FALSE]
  ELSE LET l == b[off + 1] IN
    IF l = 0 THEN [ok |-> TRUE, labels |-> << >>, pos |-> off + 1]
    ELSE IF l >= 192 THEN
      IF off + 1 >= Len(b) THEN [ok |-> FALSE]
      ELSE LET target == (l - 192) * 256 + b[off + 2] IN
        IF jumps >= MaxJumps \/ target >= Len(b) THEN [ok |-> FALSE]
        ELSE LET r == decode_labels(b, target, jumps + 1) IN
          IF ~r.ok THEN [ok |-> FALSE]
          ELSE [ok |-> TRUE, labels |-> r.labels, pos |-> off + 2]
    ELSE IF l >= 64 THEN [ok |-> FALSE]
    ELSE IF off + 1 + l > Len(b) THEN [ok |-> FALSE]
    ELSE LET r == decode_labels(b, off + 1 + l, jumps) IN
      IF ~r.ok THEN [ok |-> FALSE]
      ELSE [ok |-> TRUE,
            labels |-> << SubSeq(b, off + 2, off + 1 + l) >> \o r.labels,
            pos |-> r.pos]

\* '.'.join(labels)
RECURSIVE join_labels(_)
join_labels(ls) ==
  IF ls = << >> THEN << >>
  ELSE IF Len(ls) = 1 THEN ls[1]
  ELSE ls[1] \o << 46 >> \o join_labels(Tail(ls))

decode_dns_name(response, start) ==
  LET r == decode_labels(response, start, 0) IN
  IF r.ok THEN [ok |-> TRUE, name |-> join_labels(r.labels), pos |-> r.pos]
  ELSE [ok |-> FALSE]

\* ---- record decoder -------------------------------------------------------
\* DNSRecord("error", DNSRecordType(0), "Parse error")
Sentinel == DNSRecord(STR_error, 0, STR_parse_error)

\* The except branch of parse_record: the sentinel, cursor unchanged.
parse_error(start_index) == [record |-> Sentinel, next |-> start_index]

\* The AAAA branch: the octets of response[rdata_start:rdata_end], and the
\* cursor forced to rdata_start + 16.
parse_AAAA(response, name, rdata_start, rdata_end) ==
  [record |-> DNSRecord(name, TYPE_AAAA, Slice(response, rdata_start, rdata_end)),
   next |-> rdata_start + 16]

\* Mutant of parse_A: the cursor is not advanced.
parse_A_stay(response, start_index, name, rdata_start, rdata_end) ==
  LET ip == Slice(response, rdata_start, rdata_end) IN
  IF Len(ip) # 4 THEN parse_error(start_index)
  ELSE [record |-> DNSRecord(name, TYPE_A, ip), next |-> start_index]

\* The A branch: struct.unpack('!BBBB', ...) wants exactly four octets.
parse_A(response, start_index, name, rdata_start, rdata_end) ==
  LET ip == Slice(response, rdata_start, rdata_end) IN
  IF Len(ip) # 4 THEN parse_error(start_index)
  ELSE [record |-> DNSRecord(name, TYPE_A, ip), next |-> rdata_end]

\* Mutant of parse_NAME: the name decoder's cursor is returned.
parse_NAME_cursor(response, start_index, name, rtype, rdata_start, rdata_end) ==
  LET n == decode_dns_name(response, rdata_start) IN
  IF ~n.ok THEN parse_error(start_index)
  ELSE [record |-> DNSRecord(name, rtype, n.name), next |-> n.pos]

\* The NS and CNAME branches: the name at rdata_start, its cursor discarded.
parse_NAME(response, start_index, name, rtype, rdata_start, rdata_end) ==
  LET n == decode_dns_name(response, rdata_start) IN
  IF ~n.ok THEN parse_error(start_index)
  ELSE [record |-> DNSRecord(name, rtype, n.name), next |-> rdata_end]

\* The MX branch: preference, then the exchange name; the cursor is the name
\* decoder's.
parse_MX(response, start_index, name, rdata_start) ==
  IF Len(Slice(response, rdata_start, rdata_start + 2)) # 2
  THEN parse_error(start_index)
  ELSE LET n == decode_dns_name(response, rdata_start + 2) IN
    IF ~n.ok THEN parse_error(start_index)
    ELSE [record |-> DNSRecord(name, TYPE_MX, n.name), next |-> n.pos]

\* The SOA branch: mname, rname, five 32-bit fields; the cursor is 20 octets
\* past rname.
parse_SOA(response, start_index, name, rdata_start) ==
  LET m == decode_dns_name(response, rdata_start) IN
  IF ~m.ok THEN parse_error(start_index)
  ELSE LET r == decode_dns_name(response, m.pos) IN
    IF ~r.ok THEN parse_error(start_index)
    ELSE IF Len(Slice(response, r.pos, r.pos + 20)) # 20
    THEN parse_error(start_index)
    ELSE [record |-> DNSRecord(name, TYPE_SOA, m.name), next |-> r.pos + 20]

\* Any other type: a placeholder, the cursor advanced by rdlength.
parse_other(name, rtype, rdata_end) ==
  [record |-> DNSRecord(name, rtype, STR_unsupported), next |-> rdata_end]

parse_record(response, start_index) ==
  LET n == decode_dns_name(response, start_index) IN
  IF ~n.ok THEN parse_error(start_index)
  ELSE LET position == n.pos
           fixed == Slice(response, position, position + 10) IN
    IF Len(fixed) # 10 THEN parse_error(start_index)
    ELSE LET rtype == U16(fixed, 0)
             rdlength == U16(fixed, 8)
             rdata_start == position + 10
             rdata_end == rdata_start + rdlength IN
      CASE rtype = TYPE_A ->
             parse_A(response, start_index, n.name, rdata_start, rdata_end)
        [] rtype \in {TYPE_NS, TYPE_CNAME} ->
             parse_NAME(response, start_index, n.name, rtype, rdata_start, rdata_end)
        [] rtype = TYPE_MX ->
             parse_MX(response, start_index, n.name, rdata_start)
        [] rtype = TYPE_SOA ->
             parse_SOA(response, start_index, n.name, rdata_start)
        [] rtype = TYPE_AAAA ->
             parse_AAAA(response, n.name, rdata_start, rdata_end)
        [] OTHER -> parse_other(n.name, rtype, rdata_end)

\* ---- response parser ------------------------------------------------------
\* One turn of the loop of parse_section: the record is appended, the cursor
\* moves to where parse_record ended.  calls logs (start, next) of every call.
section_step(sec, r) ==
  [records |-> Append(sec.records, r.record),
   pos |-> r.next,
   calls |-> Append(sec.calls, [start |-> sec.pos, next |-> r.next])]

\* parse_section: count calls of parse_record, each from the cursor the
\* previous one returned.
parse_section(response, start, count) ==
  LET F[k \in 0..count] ==
        IF k = 0 THEN [records |-> << >>, pos |-> start, calls |-> << >>]
        ELSE section_step(F[k - 1], parse_record(response, F[k - 1].pos)) IN
  F[count]

\* The DNSResponse, with the counts of the header and the calls made.
DNSResponse(query_name, query_type, counts, an, ns, ar) ==
  [status |-> "ok",
   query_name |-> query_name,
   query_type |-> query_type,
   ancount |-> counts[1], nscount |-> counts[2], arcount |-> counts[3],
   answers |-> an.records,
   authorities |-> ns.records,
   additional |-> ar.records,
   calls |-> an.calls \o ns.calls \o ar.calls]

\* Mutant of parse_sections: every section is parsed from the end of the
\* question.
parse_sections_restart(response, query_name, query_type, current_position, counts) ==
  DNSResponse(query_name, query_type, counts,
              parse_section(response, current_position, counts[1]),
              parse_section(response, current_position, counts[2]),
              parse_section(response, current_position, counts[3]))

\* Step 3 of parse_response: the answer, authority and additional sections,
\* each parsed from where the one before ended.
parse_sections(response, query_name, query_type, current_position, counts) ==
  LET section[j \in 0..3] ==
        IF j = 0 THEN [records |-> << >>, pos |-> current_position, calls |-> << >>]
        ELSE parse_section(response, section[j - 1].pos, counts[j]) IN
  DNSResponse(query_name, query_type, counts, section[1], section[2], section[3])

\* Step 2 of parse_response: the question, q being the decoded name.
parse_question(response, q, counts) ==
  IF ~q.ok THEN [status |-> "raise"]
  ELSE IF Len(Slice(response, q.pos, q.pos + 4)) # 4 THEN [status |-> "raise"]
  ELSE parse_sections(response, q.name, U16(response, q.pos), q.pos + 4, counts)

\* Mutant of parse_response: the identifier of the header is read as a signed
\* number ('!h'), so an identifier of 32768 or more never matches.
parse_response_signed(response, expected_query_id) ==
  IF Len(Slice(response, 0, 12)) # 12 THEN [status |-> "raise"]
  ELSE IF U16(response, 0) >= 32768 \/ U16(response, 0) # expected_query_id
  THEN [status |-> "none"]
  ELSE parse_question(response, decode_dns_name(response, 12),
                      << U16(response, 6), U16(response, 8), U16(response, 10) >>)

\* The outcome of parse_response: "raise" (an exception leaves the function),
\* "none" (identifier mismatch) or "ok" with the DNSResponse.
parse_response(response, expected_query_id) ==
  IF Len(Slice(response, 0, 12)) # 12 THEN [status |-> "raise"]
  ELSE IF U16(response, 0) # expected_query_id THEN [status |-> "none"]
  ELSE parse_question(response, decode_dns_name(response, 12),
                      << U16(response, 6), U16(response, 8), U16(response, 10) >>)

\* ---- DNSRecord.value_string, DNSResponse.get_answer (helpers) ------------
\* str(n) for 0 <= n: decimal digits.
RECURSIVE decimal(_)
decimal(n) == IF n < 10 THEN << 48 + n >> ELSE decimal(n \div 10) \o << 48 + (n % 10) >>

\* An A value as dotted decimal; a name-valued record as the stored string.
value_string(record) ==
  IF record.type = TYPE_A
  THEN decimal(record.value[1]) \o << 46 >> \o decimal(record.value[2]) \o << 46 >>
         \o decimal(record.value[3]) \o << 46 >> \o decimal(record.value[4])
  ELSE record.value

\* The first record of answers whose owner and type both match, or None.
get_answer(response_records, name, type) ==
  LET hits == { k \in 1..Len(response_records.answers) :
                  /\ response_records.answers[k].name = name
                  /\ response_records.answers[k].type = type } IN
  IF hits = {} THEN NoObject
  ELSE response_records.answers[CHOOSE k \in hits : \A j \in hits : k <= j]

\* ---- name encoder and query builder (helpers) ------------------------------
\* hostname.split('.')
RECURSIVE split_dots(_)
split_dots(s) ==
  IF \A k \in 1..Len(s) : s[k] # 46 THEN << s >>
  ELSE LET d == CHOOSE k \in 1..Len(s) : s[k] = 46 /\ \A j \in 1..(k - 1) : s[j] # 46 IN
    << SubSeq(s, 1, d - 1) >> \o split_dots(SubSeq(s, d + 1, Len(s)))

RECURSIVE encode_labels(_)
encode_labels(ls) ==
  IF ls = << >> THEN << 0 >>
  ELSE IF ls[1] = << >> THEN encode_labels(Tail(ls))
  ELSE << Len(ls[1]) >> \o ls[1] \o encode_labels(Tail(ls))

encode_dns_name(hostname) == encode_labels(split_dots(hostname))

\* Header (id, flags 0x0100, qdcount 1, no records), then the question.
construct_query(query_id, hostname, qtype) ==
  P16(query_id) \o << 1, 0, 0, 1, 0, 0, 0, 0, 0, 0 >>
    \o encode_dns_name(hostname) \o P16(qtype) \o << 0, 1 >>

\* ---- collaborators ---------------------------------------------------------
\* "com"
STR_com == << 99, 111, 109 >>

\* The suffixes tldextract knows (its public-suffix list), cut to one.
PublicSuffixes == { STR_com }

\* tldextract.extract(hostname).suffix is not empty.
has_suffix(hostname) ==
  LET ls == split_dots(hostname) IN ls[Len(ls)] \in PublicSuffixes

\* get_root_servers(): the static bootstrap list, "1.1.1.1" and "2.2.2.2".
get_root_servers == << << 49, 46, 49, 46, 49, 46, 49 >>, << 50, 46, 50, 46, 50, 46, 50 >> >>

\* random.randrange(lo, hi): lo <= n < hi.
randrange(lo, hi) == lo..(hi - 1)

\* ---- resolution engine -----------------------------------------------------
determine_target_type(is_mx) == IF is_mx THEN TYPE_MX ELSE TYPE_A

\* Python truthiness of an Optional[str].
truthy(v) == v # None /\ v # << >>

find_direct_answer(response_records, target, target_type) ==
  LET direct_answer == get_answer(response_records, target, target_type) IN
  IF direct_answer # NoObject THEN value_string(direct_answer) ELSE None

\* Mutant of handle_cname_record: a CNAME record owned by the value of the
\* first one is followed too.
handle_cname_record_chain(response_records, target) ==
  LET cname_record == get_answer(response_records, target, TYPE_CNAME) IN
  IF cname_record # NoObject
  THEN LET second == get_answer(response_records, cname_record.value, TYPE_CNAME) IN
       [target |-> IF second # NoObject THEN second.value ELSE cname_record.value,
        cname |-> TRUE]
  ELSE [target |-> target, cname |-> FALSE]

handle_cname_record(response_records, target) ==
  LET cname_record == get_answer(response_records, target, TYPE_CNAME) IN
  IF cname_record # NoObject THEN [target |-> cname_record.value, cname |-> TRUE]
  ELSE [target |-> target, cname |-> FALSE]

\* [record.value for record in authorities if record.type == NS]
ns_values(authorities) ==
  LET F[k \in 0..Len(authorities)] ==
        IF k = 0 THEN << >>
        ELSE IF authorities[k].type = TYPE_NS THEN Append(F[k - 1], authorities[k].value)
        ELSE F[k - 1] IN
  F[Len(authorities)]

\* Mutant of glue_ips: every A record owned by the NS name is taken (the
\* break of the inner loop is missing).
glue_ips_all(ns_servers, additional) ==
  LET all_A(ns) ==
        LET G[k \in 0..Len(additional)] ==
              IF k = 0 THEN << >>
              ELSE IF additional[k].name = ns /\ additional[k].type = TYPE_A
              THEN Append(G[k - 1], value_string(additional[k]))
              ELSE G[k - 1] IN
        G[Len(additional)]
      F[k \in 0..Len(ns_servers)] ==
        IF k = 0 THEN << >> ELSE F[k - 1] \o all_A(ns_servers[k]) IN
  F[Len(ns_servers)]

\* For each NS name in order, the address of the first A record of additional
\* owned by it.
glue_ips(ns_servers, additional) ==
  LET first_A(ns) ==
        LET hits == { k \in 1..Len(additional) :
                        additional[k].name = ns /\ additional[k].type = TYPE_A } IN
        IF hits = {} THEN << >>
        ELSE << value_string(additional[CHOOSE k \in hits : \A j \in hits : k <= j]) >>
      F[k \in 0..Len(ns_servers)] ==
        IF k = 0 THEN << >> ELSE F[k - 1] \o first_A(ns_servers[k]) IN
  F[Len(ns_servers)]

\* What a function of the engine does next: return a value, or call resolve
\* (as its own result: frame = NoObject; or, in the loop over the NS names, with
\* the loop's frame to come back to).
Ret(v) == [kind |-> "return", value |-> v]
Call(h, s, mx, f) == [kind |-> "call", hostname |-> h, servers |-> s, is_mx |-> mx, frame |-> f]

\* Mutant of ns_loop: the NS name is looked up with the request type of the
\* resolution.
ns_loop_mx(hostname, is_mx, ns_servers, k) ==
  IF k <= Len(ns_servers)
  THEN Call(ns_servers[k], get_root_servers, is_mx,
            [hostname |-> hostname, is_mx |-> is_mx, ns_servers |-> ns_servers, k |-> k])
  ELSE Call(hostname, get_root_servers, is_mx, NoObject)

\* The loop over ns_servers from position k (1-based), and the fallback after it.
ns_loop(hostname, is_mx, ns_servers, k) ==
  IF k <= Len(ns_servers)
  THEN Call(ns_servers[k], get_root_servers, FALSE,
            [hostname |-> hostname, is_mx |-> is_mx, ns_servers |-> ns_servers, k |-> k])
  ELSE Call(hostname, get_root_servers, is_mx, NoObject)

\* Mutant of resolve_query: the referral of the response is followed also
\* after an alias.
resolve_query_glue(hostname, is_mx, response_records, cname) ==
  LET ns_servers == ns_values(response_records.authorities)
      ns_server_ips_ordered == glue_ips(ns_servers, response_records.additional) IN
  IF ns_server_ips_ordered # << >>
  THEN Call(hostname, ns_server_ips_ordered, is_mx, NoObject)
  ELSE IF cname THEN Call(hostname, get_root_servers, is_mx, NoObject)
  ELSE ns_loop(hostname, is_mx, ns_servers, 1)

resolve_query(hostname, is_mx, response_records, cname) ==
  IF cname THEN Call(hostname, get_root_servers, is_mx, NoObject)
  ELSE LET ns_servers == ns_values(response_records.authorities)
           ns_server_ips_ordered == glue_ips(ns_servers, response_records.additional) IN
    IF ns_server_ips_ordered # << >>
    THEN Call(hostname, ns_server_ips_ordered, is_mx, NoObject)
    ELSE ns_loop(hostname, is_mx, ns_servers, 1)

\* Mutant of locate_answer: the test for an SOA record is missing.
locate_answer_nosoa(hostname, is_mx, response_records) ==
  IF ~has_suffix(hostname) THEN Ret(None)
  ELSE LET target_type == determine_target_type(is_mx)
           h == handle_cname_record(response_records, hostname)
           direct_answer == find_direct_answer(response_records, h.target, target_type) IN
    IF truthy(direct_answer) THEN Ret(direct_answer)
    ELSE IF response_records.authorities = << >> /\ response_records.answers = << >>
    THEN Ret(None)
    ELSE resolve_query(h.target, is_mx, response_records, h.cname)

\* Mutant of locate_answer: the TLD of the hostname is not tested.
locate_answer_notld(hostname, is_mx, response_records) ==
  LET target_type == determine_target_type(is_mx)
      h == handle_cname_record(response_records, hostname)
      direct_answer == find_direct_answer(response_records, h.target, target_type) IN
  IF truthy(direct_answer) THEN Ret(direct_answer)
  ELSE IF response_records.authorities = << >> /\ response_records.answers = << >>
  THEN Ret(None)
  ELSE IF /\ \E k \in 1..Len(response_records.authorities) :
               response_records.authorities[k].type = TYPE_SOA
          /\ response_records.answers = << >>
  THEN Ret(None)
  ELSE resolve_query(h.target, is_mx, response_records, h.cname)

locate_answer(hostname, is_mx, response_records) ==
  IF ~has_suffix(hostname) THEN Ret(None)
  ELSE LET target_type == determine_target_type(is_mx)
           h == handle_cname_record(response_records, hostname)
           direct_answer == find_direct_answer(response_records, h.target, target_type) IN
    IF truthy(direct_answer) THEN Ret(direct_answer)
    ELSE IF response_records.authorities = << >> /\ response_records.answers = << >>
    THEN Ret(None)
    ELSE IF /\ \E k \in 1..Len(response_records.authorities) :
                 response_records.authorities[k].type = TYPE_SOA
            /\ response_records.answers = << >>
    THEN Ret(None)
    ELSE resolve_query(h.target, is_mx, response_records, h.cname)

\* ---- the servers' side: datagrams a query can be answered with ------------
\* "a.com", "b.com", "n.com", "m.com", "x"
H_A == << 97, 46, 99, 111, 109 >>
H_B == << 98, 46, 99, 111, 109 >>
H_N == << 110, 46, 99, 111, 109 >>
H_M == << 109, 46, 99, 111, 109 >>
H_X == << 120 >>

\* A resource record as a server writes it: owner, type, the rdlength field
\* and the rdata octets (which a faulty server may make disagree).
Wire(name, type, rdlength, rdata) ==
  [name |-> name, type |-> type, rdlength |-> rdlength, rdata |-> rdata]
WA(name, ip) == Wire(name, TYPE_A, 4, ip)
WName(name, type, target) ==
  Wire(name, type, Len(encode_dns_name(target)), encode_dns_name(target))
WMX(name, exchange) ==
  Wire(name, TYPE_MX, 2 + Len(encode_dns_name(exchange)), << 0, 10 >> \o encode_dns_name(exchange))
WSOA(name, mname) ==
  Wire(name, TYPE_SOA, Len(encode_dns_name(mname)) + 22,
       encode_dns_name(mname) \o << 192, 12 >>
         \o << 0, 0, 0, 1, 0, 0, 0, 2, 0, 0, 0, 3, 0, 0, 0, 4, 0, 0, 0, 5 >>)
WAAAA(name, rdlength) ==
  Wire(name, TYPE_AAAA, rdlength, << 1, 2, 3, 4, 5, 6, 7, 8, 9, 10, 11, 12, 13, 14, 15, 16 >>)

\* The owner name is a pointer to the question name (offset 12) when it is
\* the queried name, else written out.
EncRR(w, qname) ==
  (IF w.name = qname THEN << 192, 12 >> ELSE encode_dns_name(w.name))
    \o P16(w.type) \o << 0, 1 >> \o << 0, 0, 0, 60 >> \o P16(w.rdlength) \o w.rdata

RECURSIVE EncRRs(_, _)
EncRRs(ws, qname) ==
  IF ws = << >> THEN << >> ELSE EncRR(ws[1], qname) \o EncRRs(Tail(ws), qname)

EncMessage(mid, qname, qtype, an, ns, ar) ==
  P16(mid) \o << 132, 0 >> \o P16(1) \o P16(Len(an)) \o P16(Len(ns)) \o P16(Len(ar))
    \o encode_dns_name(qname) \o P16(qtype) \o << 0, 1 >>
    \o EncRRs(an, qname) \o EncRRs(ns, qname) \o EncRRs(ar, qname)

Sections(an, ns, ar) == [an |-> an, ns |-> ns, ar |-> ar]

IP_1 == << 1, 2, 3, 4 >>
IP_2 == << 5, 6, 7, 8 >>
IP_9 == << 9, 9, 9, 9 >>

\* The record sections a server may answer a query for qname with.
S_A(q) == Sections(<< WA(q, IP_1) >>, << >>, << >>)
S_MX(q) == Sections(<< WMX(q, H_M) >>, << >>, << >>)
S_CNAME_A(q) == Sections(<< WName(q, TYPE_CNAME, H_B), WA(H_B, IP_2) >>, << >>, << >>)
S_CNAME(q) ==
  Sections(<< WName(q, TYPE_CNAME, H_B) >>, << WName(STR_com, TYPE_NS, H_N) >>,
           << WA(H_N, IP_9) >>)
S_GLUE(q) == Sections(<< >>, << WName(STR_com, TYPE_NS, H_N) >>, << WA(H_N, IP_9) >>)
S_NOGLUE(q) == Sections(<< >>, << WName(STR_com, TYPE_NS, H_N) >>, << >>)
S_SOA(q) == Sections(<< >>, << WSOA(STR_com, H_N) >>, << >>)
S_EMPTY(q) == Sections(<< >>, << >>, << >>)
S_AAAA(q) == Sections(<< WA(q, IP_1) >>, << >>, << WAAAA(q, 16) >>)
S_A_A(q) == Sections(<< WA(q, IP_1), WA(q, IP_2) >>, << >>, << >>)

WellFormed(q) ==
  { S_A(q), S_MX(q), S_CNAME_A(q), S_CNAME(q), S_GLUE(q), S_NOGLUE(q), S_SOA(q),
    S_EMPTY(q), S_AAAA(q) }

Enc(mid, q, qtype, s) == EncMessage(mid, q, qtype, s.an, s.ns, s.ar)

\* Another identifier than the query's.
OtherId(qid) == (qid + 1) % 65536

\* Datagrams that are cut short: empty, in the header, in the question, in the
\* last record.
CutShort(qid, q, qtype) ==
  LET one == Enc(qid, q, qtype, S_A(q))
      two == Enc(qid, q, qtype, S_A_A(q))
      other == Enc(OtherId(qid), q, qtype, S_A(q)) IN
  { << >>, Slice(one, 0, 11), Slice(other, 0, 4), Slice(one, 0, 14),
    Slice(one, 0, 12 + Len(encode_dns_name(q)) + 2),
    Slice(one, 0, Len(one) - 2), Slice(two, 0, Len(two) - 2) }

\* What recv may return for the query (qid, q, qtype).
Replies(qid, q, qtype) ==
  { Enc(qid, q, qtype, s) : s \in WellFormed(q) }
    \cup { Enc(OtherId(qid), q, qtype, S_A(q)) }
    \cup CutShort(qid, q, qtype)

\* ---- the bounds of the model ----------------------------------------------
\* resolve invocations of one resolution that the model follows.
MaxInvocations == 3
\* Nested lookups of NS names that the model follows.
MaxStack == 2

\* The identifiers the model draws: samples of randrange(0, 65535).
IdSamples == { 731, 65534, 65535 }
QueryIds == { n \in IdSamples : n \in randrange(0, 65535) }

Hostnames == { H_A, H_X }
ServerLists == { << >>, << get_root_servers[1] >>, get_root_servers }

\* ---- state ------------------------------------------------------------------
VARIABLES
  hostname,      \* resolve: the name of the current invocation
  servers,       \* resolve: its server list
  is_mx,         \* resolve: its request type
  id,            \* resolve: the identifier it drew
  query,         \* resolve: the query it built
  pc,            \* where the program is: send, recv, parse, locate, done, raised
  i,             \* query_servers: servers of the list already given up
  sent,          \* query_servers: the sendto calls of this invocation, in order
  data,          \* resolve: what query_servers returned
  dns_response,  \* resolve: what parse_response returned
  stack,         \* resolve_query: the loops over NS names waiting for a lookup
  ret,           \* the last resolve invocation that returned, and its value
  result,        \* what the top-level resolve returned
  invocations,   \* resolve invocations so far in this resolution
  start_index,   \* parse_record on its own: the offset it is applied at
  parsed         \* parse_record on its own: what it returned

vars ==
  << hostname, servers, is_mx, id, query, pc, i, sent, data, dns_response, stack,
     ret, result, invocations, start_index, parsed >>

\* The variables of parse_record applied on its own.
codec == << start_index, parsed >>

\* Mutant of Enter: the query is built with type A whatever is_mx says.
Enter_typeA(nid, h, s, mx, stk, cap) ==
  /\ invocations < cap
  /\ Len(stk) <= MaxStack
  /\ nid \in randrange(0, 65535)
  /\ hostname' = h
  /\ servers' = s
  /\ is_mx' = mx
  /\ id' = nid
  /\ query' = construct_query(nid, h, TYPE_A)
  /\ pc' = "send"
  /\ i' = 0
  /\ sent' = << >>
  /\ data' = None
  /\ dns_response' = NoObject
  /\ stack' = stk
  /\ invocations' = invocations + 1
  /\ UNCHANGED << result, codec >>

\* resolve(h, s, mx) is entered: lines 334-335, and query_servers starts.
Enter(nid, h, s, mx, stk, cap) ==
  /\ invocations < cap
  /\ Len(stk) <= MaxStack
  /\ nid \in randrange(0, 65535)
  /\ hostname' = h
  /\ servers' = s
  /\ is_mx' = mx
  /\ id' = nid
  /\ query' = construct_query(nid, h, determine_target_type(mx))
  /\ pc' = "send"
  /\ i' = 0
  /\ sent' = << >>
  /\ data' = None
  /\ dns_response' = NoObject
  /\ stack' = stk
  /\ invocations' = invocations + 1
  /\ UNCHANGED << result, codec >>

\* The record of the invocation that returns v.
Returned(v) ==
  [hostname |-> hostname, servers |-> servers, is_mx |-> is_mx, id |-> id,
   data |-> data, sent |-> sent, timeouts |-> i, value |-> v]

\* What the engine does next is carried out: a call of resolve is entered.
Descend(d, stk, nid, cap) ==
  Enter(nid, d.hostname, d.servers, d.is_mx,
        IF d.frame = NoObject THEN stk ELSE << d.frame >> \o stk, cap)

\* Mutant of Return: the query through the address of an NS name is sent
\* with type A.
Return_typeA(v, nid, cap) ==
  /\ ret' = Returned(v)
  /\ IF stack = << >>
     THEN /\ pc' = "done"
          /\ result' = v
          /\ UNCHANGED << hostname, servers, is_mx, id, query, i, sent, data,
                          dns_response, stack, invocations, codec >>
     ELSE LET f == Head(stack) IN
          IF truthy(v)
          THEN Enter(nid, f.hostname, << v >>, FALSE, Tail(stack), cap)
          ELSE Descend(ns_loop(f.hostname, f.is_mx, f.ns_servers, f.k + 1),
                       Tail(stack), nid, cap)

\* The current invocation returns v: to the caller of the resolution, or to
\* the loop over NS names that called it (lines 257-266).
Return(v, nid, cap) ==
  /\ ret' = Returned(v)
  /\ IF stack = << >>
     THEN /\ pc' = "done"
          /\ result' = v
          /\ UNCHANGED << hostname, servers, is_mx, id, query, i, sent, data,
                          dns_response, stack, invocations, codec >>
     ELSE LET f == Head(stack) IN
          IF truthy(v)
          THEN Enter(nid, f.hostname, << v >>, f.is_mx, Tail(stack), cap)
          ELSE Descend(ns_loop(f.hostname, f.is_mx, f.ns_servers, f.k + 1),
                       Tail(stack), nid, cap)

\* ---- transport: query_servers ---------------------------------------------
\* Mutant of SendTo: every send goes to the first server of the list.
SendTo_first ==
  /\ pc = "send"
  /\ i < Len(servers)
  /\ sent' = Append(sent, [query |-> query, server |-> servers[1], port |-> 53])
  /\ pc' = "recv"
  /\ UNCHANGED << hostname, servers, is_mx, id, query, i, data, dns_response, stack,
                  ret, result, invocations, codec >>

\* sock.sendto(query, (server, 53)) for the next server of the list.
SendTo ==
  /\ pc = "send"
  /\ i < Len(servers)
  /\ sent' = Append(sent, [query |-> query, server |-> servers[i + 1], port |-> 53])
  /\ pc' = "recv"
  /\ UNCHANGED << hostname, servers, is_mx, id, query, i, data, dns_response, stack,
                  ret, result, invocations, codec >>

\* Mutant of RecvTimeout: the same server is tried again.
RecvTimeout_retry ==
  /\ pc = "recv"
  /\ pc' = "send"
  /\ UNCHANGED << hostname, servers, is_mx, id, query, i, sent, data, dns_response,
                  stack, ret, result, invocations, codec >>

\* sock.recv raises socket.timeout: on to the next server.
RecvTimeout ==
  /\ pc = "recv"
  /\ i' = i + 1
  /\ pc' = "send"
  /\ UNCHANGED << hostname, servers, is_mx, id, query, sent, data, dns_response,
                  stack, ret, result, invocations, codec >>

\* Mutant of AllTimedOut: None is returned after the first timeout.
AllTimedOut_early(nid, cap) ==
  /\ pc = "send"
  /\ i >= 1 \/ i = Len(servers)
  /\ Return(None, nid, cap)

\* The loop is over: query_servers returns None, and so does resolve
\* (lines 173, 339-342).
AllTimedOut(nid, cap) ==
  /\ pc = "send"
  /\ i = Len(servers)
  /\ Return(None, nid, cap)

\* sock.recv returns d: query_servers returns it (lines 165, 171).
RecvReply(d) ==
  /\ pc = "recv"
  /\ data' = d
  /\ pc' = "parse"
  /\ UNCHANGED << hostname, servers, is_mx, id, query, i, sent, dns_response, stack,
                  ret, result, invocations, codec >>

\* ---- resolve, steps 3 and 4 --------------------------------------------------
\* parse_response(data, id): an exception leaves resolve and every caller
\* (nothing catches it); None makes resolve return None.
ParseResponse(nid, cap) ==
  /\ pc = "parse"
  /\ LET r == parse_response(data, id) IN
     IF r.status = "raise"
     THEN /\ pc' = "raised"
          /\ dns_response' = NoObject
          /\ UNCHANGED << hostname, servers, is_mx, id, query, i, sent, data, stack,
                          ret, result, invocations, codec >>
     ELSE IF r.status = "none"
     THEN Return(None, nid, cap)
     ELSE /\ pc' = "locate"
          /\ dns_response' = r
          /\ UNCHANGED << hostname, servers, is_mx, id, query, i, sent, data, stack,
                          ret, result, invocations, codec >>

\* locate_answer(hostname, is_mx, dns_response): resolve returns its result,
\* which is a value or the result of a further resolve.
LocateAnswer(nid, cap) ==
  /\ pc = "locate"
  /\ LET d == locate_answer(hostname, is_mx, dns_response) IN
     IF d.kind = "return"
     THEN Return(d.value, nid, cap)
     ELSE /\ Descend(d, stack, nid, cap)
          /\ UNCHANGED ret

Init ==
  /\ hostname \in Hostnames
  /\ servers \in ServerLists
  /\ is_mx \in BOOLEAN
  /\ id \in QueryIds
  /\ query = construct_query(id, hostname, determine_target_type(is_mx))
  /\ pc = "send"
  /\ i = 0
  /\ sent = << >>
  /\ data = None
  /\ dns_response = NoObject
  /\ stack = << >>
  /\ ret = NoObject
  /\ result = None
  /\ invocations = 1
  /\ start_index = 0
  /\ parsed = NoObject

Next ==
  \/ SendTo
  \/ RecvTimeout
  \/ \E nid \in QueryIds : AllTimedOut(nid, MaxInvocations)
  \/ \E d \in Replies(id, hostname, determine_target_type(is_mx)) : RecvReply(d)
  \/ \E nid \in QueryIds : ParseResponse(nid, MaxInvocations)
  \/ \E nid \in QueryIds : LocateAnswer(nid, MaxInvocations)

Spec == Init /\ [][Next]_vars

\* ---- a resolution followed far: referrals and aliases only ------------------
\* The step budget the specification asks of resolve.
StepBudget == 30
\* resolve invocations that WalkSpec follows.
WalkCap == StepBudget + 1

\* Servers that answer every query with the same alias or referral.
WalkReplies(qid, q, qtype) ==
  { Enc(qid, q, qtype, s) : s \in { S_CNAME(q), S_GLUE(q), S_NOGLUE(q) } }

WalkInit ==
  /\ Init
  /\ hostname = H_A
  /\ servers = get_root_servers
  /\ id = 731

WalkNext ==
  \/ SendTo
  \/ RecvTimeout
  \/ AllTimedOut(731, WalkCap)
  \/ \E d \in WalkReplies(id, hostname, determine_target_type(is_mx)) : RecvReply(d)
  \/ ParseResponse(731, WalkCap)
  \/ LocateAnswer(731, WalkCap)

WalkSpec == WalkInit /\ [][WalkNext]_vars

\* ---- parse_record applied on its own ----------------------------------------
\* Start offsets tried: 0..MaxStart.
MaxStart == 9
\* Octets cut from the end of a buffer: 0..MaxCut.
MaxCut == 3

\* Owner names as written: a pointer to the name at offset 0, the name written
\* out, a pointer past the end, a pointer to itself.
CodecOwners == { << 192, 0 >>, encode_dns_name(H_B), << 192, 200 >>, << 192, 7 >> }
\* Record types: the six known ones, an unknown one (TXT), zero.
CodecTypes == { TYPE_A, TYPE_NS, TYPE_CNAME, TYPE_SOA, TYPE_MX, TYPE_AAAA, 16, 0 }
\* rdata as written: an address, a name, preference and exchange name, the
\* SOA fields, sixteen octets.
CodecRdata ==
  { IP_1, encode_dns_name(H_N), << 0, 10, 192, 0 >>, WSOA(STR_com, H_N).rdata,
    WAAAA(H_A, 16).rdata }
\* The rdlength field beside the true length of the rdata.
CodecRdlengths == { 0, 4, 16 }

\* "a.com" at offset 0, then one record at offset 7, cut by 0..MaxCut octets.
CodecBuffers ==
  { LET b == encode_dns_name(H_A) \o w.owner \o P16(w.type) \o << 0, 1, 0, 0, 0, 60 >>
               \o P16(w.rdlength) \o w.rdata IN
    Slice(b, 0, Len(b) - w.cut) :
      w \in { x \in [owner : CodecOwners, type : CodecTypes, rdata : CodecRdata,
                     rdlength : CodecRdlengths \cup { 7, 24 }, cut : 0..MaxCut] :
                x.rdlength \in CodecRdlengths \cup { Len(x.rdata) } } }

\* A record as written in a buffer whose first name, "a.com", is at offset 0.
CodecRR(w) ==
  (IF w.name = H_A THEN << 192, 0 >> ELSE encode_dns_name(w.name))
    \o P16(w.type) \o << 0, 1, 0, 0, 0, 60 >> \o P16(w.rdlength) \o w.rdata

\* Records whose rdlength field agrees with their rdata: one of each type
\* whose cursor follows rdlength or the rdata content (TXT is the unknown one).
CodecAgreeing ==
  { WA(H_B, IP_1), WName(H_A, TYPE_NS, H_N), WName(H_A, TYPE_CNAME, H_B),
    WMX(H_A, H_M), Wire(H_B, 16, 4, IP_2),
    Wire(STR_com, TYPE_SOA, Len(encode_dns_name(H_N)) + 22,
         encode_dns_name(H_N) \o << 192, 0 >>
           \o << 0, 0, 0, 1, 0, 0, 0, 2, 0, 0, 0, 3, 0, 0, 0, 4, 0, 0, 0, 5 >>) }

\* Two such records, one after the other.
CodecPairs == CodecAgreeing \X CodecAgreeing

\* "a.com" at offset 0, the first record at offset 7, the second after it.
CodecPairBuffer(p) == encode_dns_name(H_A) \o CodecRR(p[1]) \o CodecRR(p[2])

CodecInit ==
  /\ data \in CodecBuffers \cup { CodecPairBuffer(p) : p \in CodecPairs }
  /\ pc = "codec"
  /\ start_index = 0
  /\ parsed = NoObject
  /\ hostname = H_A
  /\ servers = << >>
  /\ is_mx = FALSE
  /\ id = 0
  /\ query = << >>
  /\ i = 0
  /\ sent = << >>
  /\ dns_response = NoObject
  /\ stack = << >>
  /\ ret = NoObject
  /\ result = None
  /\ invocations = 0

\* parse_record(data, o)
ParseRecordAt(o) ==
  /\ pc = "codec"
  /\ start_index' = o
  /\ parsed' = parse_record(data, o)
  /\ UNCHANGED << hostname, servers, is_mx, id, query, pc, i, sent, data, dns_response,
                  stack, ret, result, invocations >>

\* The loop of parse_section goes on: parse_record from the offset the call
\* before it returned (lines 127-130).
ParseFollowing ==
  /\ parsed # NoObject
  /\ ParseRecordAt(parsed.next)

CodecNext ==
  \/ \E o \in 0..MaxStart : ParseRecordAt(o)
  \/ ParseFollowing

CodecSpec == CodecInit /\ [][CodecNext]_vars

\* ---- the classifier against every kind of response -------------------------
\* resolve invocations that EngineSpec follows.
EngineCap == 3

\* The root name, "": what a null MX record ("MX 0 .") names.
H_ROOT == << >>

\* More record sections a server may answer with: a null MX; an address
\* beside a referral; a referral whose second NS name alone has glue; a
\* referral with glue for both NS names, the glue out of NS order and doubled;
\* an SOA beside a referral with glue; additional records alone; an alias
\* beside an SOA.
S_NULLMX(q) == Sections(<< WMX(q, H_ROOT) >>, << >>, << >>)
S_A_REF(q) ==
  Sections(<< WA(q, IP_1) >>, << WName(STR_com, TYPE_NS, H_N) >>, << WA(H_N, IP_9) >>)
S_GLUE1(q) ==
  Sections(<< >>, << WName(STR_com, TYPE_NS, H_N), WName(STR_com, TYPE_NS, H_M) >>,
           << WAAAA(H_M, 16), WA(H_M, IP_2) >>)
S_GLUE2(q) ==
  Sections(<< >>, << WName(STR_com, TYPE_NS, H_N), WName(STR_com, TYPE_NS, H_M) >>,
           << WA(H_M, IP_2), WA(H_N, IP_9), WA(H_N, IP_1) >>)
S_SOA_REF(q) ==
  Sections(<< >>, << WName(STR_com, TYPE_NS, H_N), WSOA(STR_com, H_N) >>,
           << WA(H_N, IP_9) >>)
S_ADD(q) == Sections(<< >>, << >>, << WA(H_N, IP_9) >>)
S_CNAME_SOA(q) ==
  Sections(<< WName(q, TYPE_CNAME, H_B) >>, << WSOA(STR_com, H_N) >>, << >>)

\* "d.com" and "c.com", and a chain of aliases q -> d.com -> c.com with an
\* address and a mail exchanger of c.com.
H_D == << 100, 46, 99, 111, 109 >>
H_C == << 99, 46, 99, 111, 109 >>
S_CHAIN(q) ==
  Sections(<< WName(q, TYPE_CNAME, H_D), WName(H_D, TYPE_CNAME, H_C),
              WA(H_C, IP_2), WMX(H_C, H_M) >>, << >>, << >>)

EngineShapes(q) ==
  { S_A(q), S_MX(q), S_NULLMX(q), S_A_REF(q), S_CNAME_A(q), S_CNAME(q), S_CNAME_SOA(q),
    S_GLUE(q), S_GLUE1(q), S_GLUE2(q), S_SOA(q), S_SOA_REF(q), S_EMPTY(q), S_ADD(q),
    S_CHAIN(q) }

\* Servers that echo the identifier and answer with well-formed messages.
EngineReplies(qid, q, qtype) == { Enc(qid, q, qtype, s) : s \in EngineShapes(q) }

EngineInit ==
  /\ Init
  /\ servers = get_root_servers
  /\ id = 731

EngineNext ==
  \/ SendTo
  \/ RecvTimeout
  \/ AllTimedOut(731, EngineCap)
  \/ \E d \in EngineReplies(id, hostname, determine_target_type(is_mx)) : RecvReply(d)
  \/ ParseResponse(731, EngineCap)
  \/ LocateAnswer(731, EngineCap)

EngineSpec == EngineInit /\ [][EngineNext]_vars

\* ---- referrals without glue: the loop over the NS names ----------------------
\* resolve invocations that NsSpec follows.
NsCap == 4

\* A referral to two NS names, "n.com" then "m.com", without glue.
S_NOGLUE2(q) ==
  Sections(<< >>, << WName(STR_com, TYPE_NS, H_N), WName(STR_com, TYPE_NS, H_M) >>, << >>)

\* Servers that refer without glue, answer, or answer with nothing.
NsReplies(qid, q, qtype) ==
  { Enc(qid, q, qtype, s) : s \in { S_NOGLUE2(q), S_A(q), S_MX(q), S_EMPTY(q) } }

NsInit ==
  /\ Init
  /\ hostname = H_A
  /\ servers = get_root_servers
  /\ id = 731

NsNext ==
  \/ SendTo
  \/ RecvTimeout
  \/ AllTimedOut(731, NsCap)
  \/ \E d \in NsReplies(id, hostname, determine_target_type(is_mx)) : RecvReply(d)
  \/ ParseResponse(731, NsCap)
  \/ LocateAnswer(731, NsCap)

NsSpec == NsInit /\ [][NsNext]_vars

\* The step in which the current invocation returns v to its caller.
Returns(v) ==
  /\ ret' = Returned(v)
  /\ stack = << >> => pc' = "done" /\ result' = v /\ invocations' = invocations

\* The step in which resolve(h, s, mx) is called as the result of the current
\* invocation.
Queries(h, s, mx) ==
  /\ pc' = "send" /\ hostname' = h /\ servers' = s /\ is_mx' = mx
  /\ i' = 0 /\ sent' = << >>
  /\ stack' = stack /\ ret' = ret /\ invocations' = invocations + 1

\* ---- the claims ---------------------------------------------------------------

\* C1: query_servers sends the query to the servers in list order, one at a
\* time (a send only after the receive before it timed out), and once a
\* receive has returned a payload, which is what it returns, no later server
\* is sent to.
C1_SendsInListOrder ==
  /\ Len(sent) <= Len(servers)
  /\ \A k \in 1..Len(sent) :
       sent[k] = [query |-> query, server |-> servers[k], port |-> 53]
  /\ pc = "send" => Len(sent) = i
  /\ pc = "recv" => Len(sent) = i + 1
  /\ pc \in { "parse", "locate", "raised" } => data # None /\ Len(sent) = i + 1
  /\ ret # NoObject /\ ret.data # None => Len(ret.sent) = ret.timeouts + 1

\* The second server of a list answers after the first timed out.
C1_Witness == pc = "parse" /\ i = 1 /\ Len(sent) = 2 /\ Len(servers) = 2

\* C2: query_servers returns nothing if and only if every server of the list
\* timed out; when a receive succeeds the result is bytes, never nothing.
C2_NothingIffAllTimedOut ==
  /\ pc \in { "parse", "locate", "raised" } => data # None /\ i < Len(servers)
  /\ ret # NoObject =>
       /\ ret.data = None <=> ret.timeouts = Len(ret.servers)
       /\ ret.data = None => ret.value = None

\* Two servers, both timed out, nothing returned.
C2_Witness ==
  ret # NoObject /\ Len(ret.servers) = 2 /\ ret.timeouts = 2 /\ ret.data = None

\* C3: in one query_servers call every position of the list gets at most one
\* send and one receive: the sends are as many as the receives, their number
\* is the index of the first server that answered, or the length of the list
\* when none did; with no servers nothing is sent and nothing returned.
C3_OneSendPerServer ==
  /\ Len(sent) <= Len(servers)
  /\ pc \in { "send", "recv", "parse", "locate", "raised", "done" } =>
       Len(sent) = i + (IF pc = "recv" \/ data # None THEN 1 ELSE 0)
  /\ ret # NoObject =>
       /\ Len(ret.sent) = IF ret.data = None THEN Len(ret.servers) ELSE ret.timeouts + 1
       /\ ret.servers = << >> => ret.sent = << >> /\ ret.data = None /\ ret.value = None

\* A call with no servers has returned.
C3_Witness == ret # NoObject /\ ret.servers = << >> /\ ret.sent = << >>

\* C4: the resolve invocations of one resolution never exceed the step budget.
C4_StepBudget == invocations <= StepBudget

\* C5: a reply whose first two octets differ from the identifier of the query
\* makes parse_response return nothing: no exception, no classification.
C5_MismatchReturnsNothing ==
  (data # None /\ Len(data) >= 2 /\ U16(data, 0) # id) => pc \notin { "raised", "locate" }

\* All the records of a response, in the order parsed.
Records(r) == r.answers \o r.authorities \o r.additional

\* C6: in every response parse_response returns, answers, authorities and
\* additional hold ancount, nscount and arcount records of the header, and
\* parse_record was called once per record, answers first, the first call at
\* the end of the question, every other call where the call before it ended.
C6_SectionCounts ==
  dns_response # NoObject =>
    LET r == dns_response
        total == r.ancount + r.nscount + r.arcount IN
    /\ r.ancount = U16(data, 6) /\ r.nscount = U16(data, 8) /\ r.arcount = U16(data, 10)
    /\ Len(r.answers) = r.ancount
    /\ Len(r.authorities) = r.nscount
    /\ Len(r.additional) = r.arcount
    /\ Len(r.calls) = total
    /\ total > 0 => r.calls[1].start = decode_dns_name(data, 12).pos + 4
    /\ \A k \in 1..(total - 1) : r.calls[k + 1].start = r.calls[k].next
    /\ \A k \in 1..total :
         parse_record(data, r.calls[k].start)
           = [record |-> Records(r)[k], next |-> r.calls[k].next]

\* A response with a record in each of the three sections.
C6_Witness ==
  /\ dns_response # NoObject
  /\ dns_response.ancount = 1 /\ dns_response.nscount = 1 /\ dns_response.arcount = 1
  /\ Len(dns_response.calls) = 3

\* C7: no response holding the sentinel record reaches the classifier.
C7_NoSentinelClassified ==
  dns_response # NoObject =>
    \A k \in 1..Len(Records(dns_response)) : Records(dns_response)[k] # Sentinel

\* C8: resolve ends with an answer or nothing, never with an exception.
C8_NoErrorEscapes == pc # "raised"

\* C9: a record parse_record parses successfully ends strictly past its start
\* offset; the sentinel alone comes with the offset unchanged.
C9_CursorMonotone ==
  parsed # NoObject =>
    IF parsed.record = Sentinel THEN parsed.next = start_index
    ELSE parsed.next > start_index

\* A record of each kind of cursor rule was parsed: here an SOA record.
C9_Witness ==
  parsed # NoObject /\ parsed.record.type = TYPE_SOA /\ parsed.next > start_index

\* C10: an AAAA record holds the 16 octets from rdata_start, and the next
\* offset is rdata_start + 16, whatever rdlength says.
C10_AAAASixteen ==
  (parsed # NoObject /\ parsed.record.type = TYPE_AAAA) =>
    LET rdata_start == decode_dns_name(data, start_index).pos + 10 IN
    /\ Len(parsed.record.value) = 16
    /\ parsed.record.value = Slice(data, rdata_start, rdata_start + 16)
    /\ parsed.next = rdata_start + 16

\* C11: the next offset of a record parse_record parses follows its type: for
\* A, NS, CNAME and unknown types it is rdata_start + rdlength, for MX the name
\* decoder's cursor after the exchange name at rdata_start + 2, for SOA 20
\* octets past rname; and where the rdlength fields agree with the rdata, the
\* next offset of a record is the start of the record written after it.
C11_NextOffsetByType ==
  /\ (parsed # NoObject /\ parsed.record # Sentinel) =>
       LET position == decode_dns_name(data, start_index).pos
           rtype == parsed.record.type IN
       CASE rtype = TYPE_MX ->
              parsed.next = decode_dns_name(data, position + 12).pos
         [] rtype = TYPE_SOA ->
              parsed.next
                = decode_dns_name(data, decode_dns_name(data, position + 10).pos).pos + 20
         [] rtype = TYPE_AAAA -> TRUE
         [] OTHER -> parsed.next = position + 10 + U16(data, position + 8)
  /\ \A p \in CodecPairs :
       (data = CodecPairBuffer(p) /\ parsed # NoObject) =>
         /\ start_index = 7 =>
              /\ parsed.record = DNSRecord(p[1].name, p[1].type, parsed.record.value)
              /\ parsed.next = 7 + Len(CodecRR(p[1]))
         /\ start_index = 7 + Len(CodecRR(p[1])) =>
              /\ parsed.record = DNSRecord(p[2].name, p[2].type, parsed.record.value)
              /\ parsed.next = Len(data)

\* The record written after an MX record was parsed from where the MX record
\* ended, and ended at the end of the buffer.
C11_Witness ==
  \E p \in CodecPairs :
    /\ data = CodecPairBuffer(p)
    /\ p[1].type = TYPE_MX
    /\ start_index = 7 + Len(CodecRR(p[1]))
    /\ parsed # NoObject /\ parsed.record # Sentinel
    /\ parsed.next = Len(data)

\* The target of the classifier: the value of the first CNAME record of the
\* answers owned by the hostname, or the hostname.
C12_Target ==
  IF get_answer(dns_response, hostname, TYPE_CNAME) # NoObject
  THEN get_answer(dns_response, hostname, TYPE_CNAME).value
  ELSE hostname

\* C12: for a hostname with an effective TLD, when the answers hold a record
\* owned by the target and of the requested type, the classifier returns the
\* string value of the first such record and issues no further query.
C12_DirectAnswer ==
  [][(/\ pc = "locate"
      /\ has_suffix(hostname)
      /\ get_answer(dns_response, C12_Target, determine_target_type(is_mx)) # NoObject)
     => Returns(value_string(get_answer(dns_response, C12_Target,
                                        determine_target_type(is_mx))))]_vars

\* C13: one invocation of resolve builds one query, of type MX when is_mx and
\* A otherwise, and hands it with its server list to one transport call; it
\* returns nothing when every server timed out, and when the reply parses
\* with the matching identifier it returns what the classifier returns for
\* (hostname, is_mx, parsed response).
C13_OneQueryOneCall ==
  /\ query = construct_query(id, hostname, determine_target_type(is_mx))
  /\ U16(query, 12 + Len(encode_dns_name(hostname))) = (IF is_mx THEN 15 ELSE 1)
  /\ Len(sent) <= Len(servers)
  /\ \A k \in 1..Len(sent) : sent[k].query = query /\ sent[k].server = servers[k]
  /\ pc = "locate" => dns_response = parse_response(data, id)
  /\ ret # NoObject =>
       /\ ret.timeouts = Len(ret.servers) => ret.value = None
       /\ (ret.data # None /\ parse_response(ret.data, ret.id).status = "ok") =>
            locate_answer(ret.hostname, ret.is_mx, parse_response(ret.data, ret.id))
              = Ret(ret.value)

\* An MX resolution returned the exchange name the second server answered with.
C13_Witness ==
  /\ ret # NoObject /\ ret.is_mx /\ ret.value = H_M
  /\ Len(ret.sent) = 2 /\ ret.timeouts = 1

\* The datagram d, sent in reply to a query with identifier a, as the same
\* server sends it in reply to the same query with identifier b: the
\* identifier field moves with the query's, the rest is the same.
ReId(d, a, b) ==
  IF Len(d) < 2 THEN d
  ELSE P16((U16(d, 0) + 65536 - a + b) % 65536) \o Slice(d, 2, Len(d))

IsEmpty == dns_response.answers = << >> /\ dns_response.authorities = << >>

\* The response is classified as negative: an SOA among the authorities and
\* no answers.
IsNegative ==
  /\ dns_response.answers = << >>
  /\ \E k \in 1..Len(dns_response.authorities) :
       dns_response.authorities[k].type = TYPE_SOA

\* The alias case of the classifier: past the TLD test of the hostname, the
\* answers hold a CNAME record owned by the hostname and no record of the
\* requested type owned by its value, and the response is neither empty nor
\* negative.
C15_AliasCase ==
  /\ pc = "locate"
  /\ has_suffix(hostname)
  /\ get_answer(dns_response, hostname, TYPE_CNAME) # NoObject
  /\ get_answer(dns_response, get_answer(dns_response, hostname, TYPE_CNAME).value,
                determine_target_type(is_mx)) = NoObject
  /\ ~IsEmpty /\ ~IsNegative

\* C15: in the alias case the next query is for the value of the CNAME
\* record, with the same is_mx, to the root servers; the NS and glue records
\* of the response are not used (no glue address is a server, no NS name is
\* looked up).
C15_AliasContinuation ==
  [][C15_AliasCase
     => Queries(get_answer(dns_response, hostname, TYPE_CNAME).value,
                get_root_servers, is_mx)]_vars

\* The second invocation queries the root servers for the alias "b.com", with
\* no NS name being looked up.
C15_Witness ==
  /\ pc = "send" /\ invocations = 2 /\ hostname = H_B
  /\ servers = get_root_servers /\ stack = << >> /\ ret = NoObject

\* The referral case of the classifier: past the TLD test of the hostname, no
\* alias was followed, no answer matches, and the response is neither empty
\* nor negative.
ReferralCase ==
  /\ pc = "locate"
  /\ has_suffix(hostname)
  /\ get_answer(dns_response, hostname, TYPE_CNAME) = NoObject
  /\ get_answer(dns_response, hostname, determine_target_type(is_mx)) = NoObject
  /\ ~IsEmpty /\ ~IsNegative

\* The values of the NS records of the authority section, in order.
NSNames ==
  LET ns == SelectSeq(dns_response.authorities, LAMBDA r : r.type = TYPE_NS) IN
  [k \in 1..Len(ns) |-> ns[k].value]

\* The dotted-decimal address of the first A record of the additional section
\* owned by name, as a list of one; the empty list when there is none.
FirstGlue(name) ==
  LET owned == SelectSeq(dns_response.additional,
                         LAMBDA r : r.name = name /\ r.type = TYPE_A) IN
  IF owned = << >> THEN << >> ELSE << value_string(owned[1]) >>

\* The glue list: the first glue address of each NS name, in NS order.
RECURSIVE GlueFrom(_)
GlueFrom(k) ==
  IF k > Len(NSNames) THEN << >> ELSE FirstGlue(NSNames[k]) \o GlueFrom(k + 1)

\* C16: in the referral case with a non-empty glue list, the next query is for
\* the same target and type, its server list is exactly the glue list, and no
\* NS name is looked up.
C16_ReferralWithGlue ==
  [][(ReferralCase /\ GlueFrom(1) # << >>)
     => Queries(hostname, GlueFrom(1), is_mx)]_vars

\* The second invocation queries "9.9.9.9" then "5.6.7.8": the first address
\* of the first NS name, then the address of the second, though the additional
\* section lists them the other way round and two for the first.
C16_Witness ==
  /\ pc = "send" /\ invocations = 2 /\ hostname = H_A /\ stack = << >>
  /\ servers = << << 57, 46, 57, 46, 57, 46, 57 >>, << 53, 46, 54, 46, 55, 46, 56 >> >>

\* What the current invocation is about to return, when it is about to return:
\* nothing after the last timeout, nothing on an identifier mismatch, what the
\* classifier returns.
Outcome ==
  CASE pc = "send" /\ i = Len(servers) -> Ret(None)
    [] pc = "parse" /\ parse_response(data, id).status = "none" -> Ret(None)
    [] pc = "locate" -> locate_answer(hostname, is_mx, dns_response)
    [] OTHER -> NoObject

\* The next invocation is resolve(h, s, mx), and waiting is stk.
Entered(h, s, mx, stk) ==
  /\ pc' = "send" /\ hostname' = h /\ servers' = s /\ is_mx' = mx
  /\ stack' = stk /\ invocations' = invocations + 1

\* C17: in the referral case with an empty glue list, the NS names are looked
\* up one after another in authority order, each from the root servers with
\* type A; when a lookup returns an address the target is queried with that
\* address as sole server, and what that query returns is the result, no NS
\* name being tried after it; when the lookup of the last NS name returns
\* nothing (or there is no NS name) the target is queried from the roots.
C17_ReferralWithoutGlue ==
  [][/\ (ReferralCase /\ GlueFrom(1) = << >>) =>
          IF NSNames = << >> THEN Queries(hostname, get_root_servers, is_mx)
          ELSE Entered(NSNames[1], get_root_servers, FALSE,
                       << [hostname |-> hostname, is_mx |-> is_mx,
                           ns_servers |-> NSNames, k |-> 1] >> \o stack)
     /\ (stack # << >> /\ Outcome # NoObject /\ Outcome.kind = "return") =>
          LET f == Head(stack)
              v == Outcome.value IN
          IF v # None /\ v # << >>
          THEN Entered(f.hostname, << v >>, f.is_mx, Tail(stack))
          ELSE IF f.k < Len(f.ns_servers)
          THEN Entered(f.ns_servers[f.k + 1], get_root_servers, FALSE,
                       << [f EXCEPT !.k = f.k + 1] >> \o Tail(stack))
          ELSE Entered(f.hostname, get_root_servers, f.is_mx, Tail(stack))
     /\ (stack = << >> /\ Outcome # NoObject /\ Outcome.kind = "return") =>
          pc' = "done" /\ result' = Outcome.value]_vars

\* The lookup of the first NS name returned "1.2.3.4", the target was queried
\* with it as sole server, that query returned nothing and nothing is the
\* result: the second NS name was not tried.
C17_Witness ==
  /\ pc = "done" /\ result = None /\ invocations = 3
  /\ ret.hostname = H_A /\ ret.servers = << << 49, 46, 50, 46, 51, 46, 52 >> >>

\* C18: a response with no answers, and with no authorities or an SOA record
\* among them, makes the classifier return nothing and no query follows, also
\* when the authorities hold NS records with glue.
C18_NegativeStops ==
  [][(pc = "locate" /\ (IsEmpty \/ IsNegative)) => Returns(None)]_vars

\* The resolution of "a.com" ended with nothing at its first response: an SOA
\* record beside an NS record with glue.
C18_Witness ==
  /\ pc = "done" /\ result = None /\ invocations = 1
  /\ ret.data = Enc(731, H_A, TYPE_A, S_SOA_REF(H_A))

\* C19: for a hostname with no effective TLD the classifier returns nothing
\* whatever the response holds, and no query follows.
C19_TLDFirst ==
  [][(pc = "locate" /\ ~has_suffix(hostname)) => Returns(None)]_vars

\* The resolution of "x" ended with nothing at its first response, which
\* holds an A record owned by "x".
C19_Witness ==
  /\ pc = "done" /\ result = None /\ invocations = 1
  /\ ret.hostname = H_X /\ ~ret.is_mx
  /\ ret.data = Enc(731, H_X, TYPE_A, S_A(H_X))

\* C20: the identifier of every query is in 0..65535 and is the identifier
\* the reply is held against; an invocation of resolve may draw any value of
\* 0..65535, the upper bound 65535 included, whatever the invocation before
\* it drew.
C20_IdRange ==
  /\ id \in 0..65535
  /\ Slice(query, 0, 2) = P16(id)
  /\ pc = "parse" =>
       (parse_response(data, id).status = "none"
          <=> (Len(data) >= 12 /\ U16(data, 0) # id))
  /\ invocations < MaxInvocations =>
       \A n \in IdSamples :
         ENABLED Enter(n, hostname, servers, is_mx, stack, MaxInvocations)

\* The reply does not carry the identifier of the query.
C21_Mismatch == Len(data) >= 2 /\ U16(data, 0) # id

\* The reply cannot be parsed: the header or the question is cut short, or a
\* record of it is.
C21_Unparsable ==
  \/ parse_response(data, id).status = "raise"
  \/ /\ parse_response(data, id).status = "ok"
     /\ \E k \in 1..Len(Records(parse_response(data, id))) :
          Records(parse_response(data, id))[k] = Sentinel

\* C21: an invocation consumes one reply: once it holds a reply it sends and
\* receives no more; and when that reply is discarded (identifier mismatch or
\* unparsable) the invocation returns nothing at once, with no referral and
\* no root fallback.
C21_DiscardReturnsNothing ==
  [][/\ (pc \in { "parse", "locate" } /\ invocations' = invocations) =>
          sent' = sent /\ data' = data /\ pc' \notin { "send", "recv" }
     /\ (pc = "parse" /\ (C21_Mismatch \/ C21_Unparsable)) => Returns(None)]_vars

\* C22: every query carries the type of its invocation's is_mx, and is_mx
\* follows the walk: a query for the target or the rewritten target (alias
\* continuation, glue referral, root fallback) keeps the is_mx of the
\* invocation that issues it; the lookup of an NS name has is_mx false, the
\* waiting loop keeping the is_mx of the resolution; the query through a
\* resolved NS address, and the root fallback after the last NS name, take
\* the is_mx the loop kept.
C22_TypePreserved ==
  [][/\ U16(query', 12 + Len(encode_dns_name(hostname'))) = (IF is_mx' THEN 15 ELSE 1)
     /\ invocations' = invocations + 1 =>
          CASE Len(stack') > Len(stack) ->
                 /\ is_mx' = FALSE
                 /\ Tail(stack') = stack
                 /\ Head(stack').is_mx = is_mx
            [] stack' = stack -> is_mx' = is_mx
            [] Len(stack') = Len(stack) /\ stack' # stack ->
                 /\ is_mx' = FALSE
                 /\ Tail(stack') = Tail(stack)
                 /\ Head(stack').is_mx = Head(stack).is_mx
                 /\ Head(stack').hostname = Head(stack).hostname
            [] Len(stack') < Len(stack) ->
                 /\ stack' = Tail(stack)
                 /\ is_mx' = Head(stack).is_mx
                 /\ hostname' = Head(stack).hostname]_vars

\* In an MX resolution of "a.com" the lookup of the NS name "n.com" was made
\* with type A and returned an address, and the third query, through that
\* address, is for "a.com" with type MX.
C22_Witness ==
  /\ pc = "send" /\ invocations = 3 /\ stack = << >>
  /\ hostname = H_A /\ is_mx /\ Len(servers) = 1
  /\ U16(query, 12 + Len(encode_dns_name(hostname))) = 15
  /\ ret # NoObject /\ ret.hostname = H_N /\ ~ret.is_mx /\ servers = << ret.value >>

\* The chain case of the classifier: past the TLD test of the hostname, the
\* answers hold a CNAME record owned by the hostname with value b, a CNAME
\* record owned by b with value c, a record of the requested type owned by c
\* and none owned by b.
C23_ChainCase ==
  /\ pc = "locate"
  /\ has_suffix(hostname)
  /\ get_answer(dns_response, hostname, TYPE_CNAME) # NoObject
  /\ LET b == get_answer(dns_response, hostname, TYPE_CNAME).value IN
       /\ get_answer(dns_response, b, TYPE_CNAME) # NoObject
       /\ get_answer(dns_response, get_answer(dns_response, b, TYPE_CNAME).value,
                     determine_target_type(is_mx)) # NoObject
       /\ get_answer(dns_response, b, determine_target_type(is_mx)) = NoObject

\* C23: in the chain case nothing is returned from the response: the next
\* query is for b, the value of the CNAME record owned by the hostname, with
\* the same is_mx, to the root servers.
C23_OneAliasPerResponse ==
  [][C23_ChainCase
     => Queries(get_answer(dns_response, hostname, TYPE_CNAME).value,
                get_root_servers, is_mx)]_vars

\* The second invocation queries the root servers for "d.com", a name that
\* only the chain a.com -> d.com -> c.com of the first response brings in,
\* with nothing returned and no NS name being looked up.
C23_Witness ==
  /\ pc = "send" /\ invocations = 2 /\ hostname = H_D
  /\ servers = get_root_servers /\ stack = << >> /\ ret = NoObject
  /\ query = construct_query(id, H_D, determine_target_type(is_mx))
====
